---- MODULE Spec2Model ----
(***************************************************************************)
(* Ockla: the snippet evaluation engine (CodeExecutor) and its callers.    *)
(*                                                                         *)
(* Spec      the engine as a state machine on Node's event loop: execute,  *)
(*           stopExecution, the sandbox's timers and continuations.        *)
(* SpecText  the text transforms (convertImportsToRequire followed by the  *)
(*           line scanner of wrapCodeToCapture) applied to bounded         *)
(*           snippets, one scanner iteration per step.                     *)
(* SpecLive  Spec with weak fairness on the event loop's own steps.        *)
(* SpecRuns  the engine with its callers' continuation, which hands each   *)
(*           returned result to OutputPanel.update.                        *)
(* SpecPanel OutputPanel: update, clear, show and the panel's disposal.    *)
(* SpecTable formatAsTable, one row per step.                              *)
(* SpecRepl  bounded snippets taken through wrapCodeToCapture and the      *)
(*           engine, from text to result.                                  *)
(*                                                                         *)
(* Text is a TLA+ string; a character is a string of length one.           *)
(***************************************************************************)
EXTENDS Integers, Sequences, FiniteSets, TLC

VARIABLES
    \* ---- CodeExecutor (engine instance) and the host it runs on
    abortController,  \* this.abortController: 0 = null, else the evaluation that created it
    aborted,          \* the controllers whose signal has been aborted
    hostGlobal,       \* the host's `global` object handed to every sandbox
    now,              \* Date.now()
    timers,           \* the host's pending setTimeout callbacks, in creation order
    hung,             \* the event loop is stuck in a loop no budget interrupts
    \* ---- one execute call per evaluation
    pc,               \* where the execute call is
    program,          \* behaviour of the snippet being evaluated
    options,          \* CodeExecutionOptions given to execute
    caller,           \* who asked: "run" (RunCodeCommand) or "save" (FileWatcher)
    startTime,        \* const startTime
    outputs,          \* const outputs: string[]
    ip,               \* next operation of the snippet's async function body
    handle,           \* the promise returned by script.runInContext
    result,           \* the ExecutionResult the call returned
    \* ---- history (not program state)
    log,              \* every append to an output record: what, and whether after return
    cancelledInFlight, \* the evaluations stopExecution signalled while in flight
    \* ---- text transforms
    phase,            \* "input", "scan1", "scan2", "done"
    code,             \* the snippet handed to execute
    processedCode,    \* convertImportsToRequire(code)
    lines,            \* code.split('\n') of the running pass
    i,                \* the scanner's loop index (0-based, as in the source)
    wrappedLines,     \* const wrappedLines: string[]
    insideMultiLine,
    bracketDepth,
    insideChainedCall,
    verdicts,         \* per pass, per line: which branch of the loop body took it
    modes,            \* per pass: the scanner's modes after each line
    firstPass,        \* wrapCodeToCapture(processedCode), kept for the second pass
    \* ---- OutputPanel
    panel,            \* this.panel is defined
    lastResult,       \* this.lastResult
    shown,            \* the result the webview's content stands for
    message,          \* the last message posted to the webview's document
    lastUpdate,       \* history: what the last update() did, and against which result
    \* ---- formatAsTable
    tablePhase,       \* "off", "keys", "rows", "done", "threw"
    arr,              \* the array being formatted
    headers,          \* const headers
    table,            \* let table
    row,              \* index of the next element of the second arr.forEach
    \* ---- the callers of execute (RunCodeCommand, FileWatcher)
    delivered         \* the evaluations whose result was handed to OutputPanel.update

engineVars == <<abortController, aborted, hostGlobal, now, timers, hung, pc, program,
                options, caller, startTime, outputs, ip, handle, result,
                log, cancelledInFlight>>
textVars == <<phase, code, processedCode, lines, i, wrappedLines, insideMultiLine,
              bracketDepth, insideChainedCall, verdicts, modes, firstPass>>
panelVars == <<panel, lastResult, shown, message, lastUpdate>>
tableVars == <<tablePhase, arr, headers, table, row>>
callerVars == <<delivered>>
vars == <<engineVars, textVars, panelVars, tableVars, callerVars>>

\* What the engine's steps, and the scanner's, leave alone.
nonEngineVars == <<textVars, panelVars, tableVars, callerVars>>
nonTextVars == <<engineVars, panelVars, tableVars, callerVars>>

-----------------------------------------------------------------------------
(* Bounds *)

MaxEvals == 2

MaxLines == 3

Evals == 1..MaxEvals

-----------------------------------------------------------------------------
(* Program constants *)

defaultTimeout == 5000

DefaultAsyncTimeout == 2000

ConfigExecutionTimeout == 5000

ConfigAsyncTimeout == 500

EmptyMarker == "(sin salida)"

TimeoutMessage == "Script execution timed out"

SyntaxErrorMessage == "SyntaxError"

-----------------------------------------------------------------------------
(* Generic helpers *)

RECURSIVE Join(_, _)
\* Array.prototype.join
Join(parts, sep) ==
    IF Len(parts) = 0 THEN ""
    ELSE IF Len(parts) = 1 THEN parts[1]
    ELSE parts[1] \o sep \o Join(Tail(parts), sep)

-----------------------------------------------------------------------------
(* Strings, as JavaScript's String methods and regular expressions use them *)

\* s[k - 1] in JavaScript's 0-based terms; "" past either end
At(s, k) == IF k >= 1 /\ k <= Len(s) THEN SubSeq(s, k, k) ELSE ""

\* \s
IsSpace(c) == c \in {" ", "\t", "\n", "\r"}

\* \d
IsDigit(c) == c \in {"0", "1", "2", "3", "4", "5", "6", "7", "8", "9"}

\* \w
IsWord(c) ==
    \/ IsDigit(c)
    \/ c \in {"a", "b", "c", "d", "e", "f", "g", "h", "i", "j", "k", "l", "m",
              "n", "o", "p", "q", "r", "s", "t", "u", "v", "w", "x", "y", "z",
              "A", "B", "C", "D", "E", "F", "G", "H", "I", "J", "K", "L", "M",
              "N", "O", "P", "Q", "R", "S", "T", "U", "V", "W", "X", "Y", "Z", "_"}

\* [\w.]
IsWordOrDot(c) == IsWord(c) \/ c = "."

\* ['"]
IsQuote(c) == c \in {"'", "\""}

\* [\+\-\*\/\%]
IsOperator(c) == c \in {"+", "-", "*", "/", "%"}

\* String.prototype.startsWith, from position k (1-based)
StartsWithAt(s, p, k) == k + Len(p) - 1 <= Len(s) /\ SubSeq(s, k, k + Len(p) - 1) = p

startsWith(s, p) == StartsWithAt(s, p, 1)

endsWith(s, p) == Len(p) <= Len(s) /\ SubSeq(s, Len(s) - Len(p) + 1, Len(s)) = p

includes(s, p) == \E k \in 1..Len(s) : StartsWithAt(s, p, k)

RECURSIVE SkipSpaces(_, _)
\* \s* from position k: the position after the run
SkipSpaces(s, k) == IF IsSpace(At(s, k)) THEN SkipSpaces(s, k + 1) ELSE k

RECURSIVE SkipWord(_, _)
\* \w* from position k
SkipWord(s, k) == IF IsWord(At(s, k)) THEN SkipWord(s, k + 1) ELSE k

RECURSIVE SkipWordOrDot(_, _)
\* [\w.]* from position k
SkipWordOrDot(s, k) == IF IsWordOrDot(At(s, k)) THEN SkipWordOrDot(s, k + 1) ELSE k

RECURSIVE SkipDigits(_, _)
\* \d* from position k
SkipDigits(s, k) == IF IsDigit(At(s, k)) THEN SkipDigits(s, k + 1) ELSE k

RECURSIVE SkipUntil(_, _, _)
\* [^...]* from position k, for the excluded characters stop
SkipUntil(s, k, stop) ==
    IF k <= Len(s) /\ At(s, k) \notin stop THEN SkipUntil(s, k + 1, stop) ELSE k

RECURSIVE TrimEnd(_)
TrimEnd(s) ==
    IF Len(s) > 0 /\ IsSpace(At(s, Len(s))) THEN TrimEnd(SubSeq(s, 1, Len(s) - 1)) ELSE s

\* String.prototype.trim
trim(s) == TrimEnd(SubSeq(s, SkipSpaces(s, 1), Len(s)))

RECURSIVE SplitFrom(_, _, _)
SplitFrom(s, start, k) ==
    LET breaks == {j \in k..Len(s) : At(s, j) = "\n"}
    IN IF breaks = {} THEN <<SubSeq(s, start, Len(s))>>
       ELSE LET j == CHOOSE j \in breaks : \A m \in breaks : j <= m
            IN <<SubSeq(s, start, j - 1)>> \o SplitFrom(s, j + 1, j + 1)

\* s.split('\n')
split(s) == SplitFrom(s, 1, 1)

RECURSIVE CountIn(_, _)
\* (s.match(/[...]/g) || []).length for the character set cs
CountIn(s, cs) ==
    IF Len(s) = 0 THEN 0
    ELSE (IF At(s, 1) \in cs THEN 1 ELSE 0) + CountIn(SubSeq(s, 2, Len(s)), cs)

-----------------------------------------------------------------------------
(* Import Normalizer: CodeExecutor.convertImportsToRequire *)

NoMatch == [ok |-> FALSE, end |-> 0, text |-> ""]

\* \s+from\s+['"]([^'"]+)['"]  at position k: the tail of the three patterns
FromClause(s, k) ==
    LET a == SkipSpaces(s, k)
        b == SkipSpaces(s, a + 4)
        c == SkipUntil(s, b + 1, {"'", "\""})
    IN IF /\ a > k
          /\ StartsWithAt(s, "from", a)
          /\ b > a + 4
          /\ IsQuote(At(s, b))
          /\ c > b + 1
          /\ IsQuote(At(s, c))
       THEN [ok |-> TRUE, end |-> c + 1, text |-> SubSeq(s, b + 1, c - 1)]
       ELSE NoMatch

\* /import\s+(\w+)\s+from\s+['"]([^'"]+)['"]/  ->  const $1 = require('$2')
DefaultImport(s, k) ==
    LET a == SkipSpaces(s, k + 6)
        b == SkipWord(s, a)
        f == FromClause(s, b)
    IN IF StartsWithAt(s, "import", k) /\ a > k + 6 /\ b > a /\ f.ok
       THEN [ok |-> TRUE, end |-> f.end,
             text |-> "const " \o SubSeq(s, a, b - 1) \o " = require('" \o f.text \o "')"]
       ELSE NoMatch

\* /import\s+\{([^}]+)\}\s+from\s+['"]([^'"]+)['"]/  ->  const {$1} = require('$2')
NamedImport(s, k) ==
    LET a == SkipSpaces(s, k + 6)
        b == SkipUntil(s, a + 1, {"}"})
        f == FromClause(s, b + 1)
    IN IF /\ StartsWithAt(s, "import", k)
          /\ a > k + 6
          /\ At(s, a) = "{"
          /\ b > a + 1
          /\ At(s, b) = "}"
          /\ f.ok
       THEN [ok |-> TRUE, end |-> f.end,
             text |-> "const {" \o SubSeq(s, a + 1, b - 1) \o "} = require('" \o f.text \o "')"]
       ELSE NoMatch

\* /import\s+\*\s+as\s+(\w+)\s+from\s+['"]([^'"]+)['"]/  ->  const $1 = require('$2')
NamespaceImport(s, k) ==
    LET a == SkipSpaces(s, k + 6)
        b == SkipSpaces(s, a + 1)
        c == SkipSpaces(s, b + 2)
        d == SkipWord(s, c)
        f == FromClause(s, d)
    IN IF /\ StartsWithAt(s, "import", k)
          /\ a > k + 6
          /\ At(s, a) = "*"
          /\ b > a + 1
          /\ StartsWithAt(s, "as", b)
          /\ c > b + 2
          /\ d > c
          /\ f.ok
       THEN [ok |-> TRUE, end |-> f.end,
             text |-> "const " \o SubSeq(s, c, d - 1) \o " = require('" \o f.text \o "')"]
       ELSE NoMatch

\* The match of one of the three patterns at position k.
MatchAt(pattern, s, k) ==
    CASE pattern = "default" -> DefaultImport(s, k)
      [] pattern = "named" -> NamedImport(s, k)
      [] pattern = "namespace" -> NamespaceImport(s, k)

\* A replace that keeps the replacements only: the text outside the matches is lost.
ReplaceAllMatchesOnly(pattern, s, k) ==
    LET hits == {j \in k..Len(s) : MatchAt(pattern, s, j).ok}
    IN IF hits = {} THEN ""
       ELSE LET j == CHOOSE j \in hits : \A m \in hits : j <= m
                m == MatchAt(pattern, s, j)
            IN m.text \o SubSeq(s, m.end, Len(s))

RECURSIVE ReplaceAll(_, _, _)
\* s.replace(/pattern/g, replacement) from position k: leftmost matches, left to
\* right, the text between them copied
ReplaceAll(pattern, s, k) ==
    LET hits == {j \in k..Len(s) : MatchAt(pattern, s, j).ok}
    IN IF hits = {} THEN SubSeq(s, k, Len(s))
       ELSE LET j == CHOOSE j \in hits : \A m \in hits : j <= m
                m == MatchAt(pattern, s, j)
            IN SubSeq(s, k, j - 1) \o m.text \o ReplaceAll(pattern, s, m.end)

convertImportsToRequire(c) ==
    LET c1 == ReplaceAll("default", c, 1)
        c2 == ReplaceAll("named", c1, 1)
    IN ReplaceAll("namespace", c2, 1)

-----------------------------------------------------------------------------
(* Expression Auto-Logger: CodeExecutor.wrapCodeToCapture and its predicates *)

\* !trimmedLine || startsWith('//') || startsWith('/*') || startsWith('*')
IsBlankOrComment(t) ==
    t = "" \/ startsWith(t, "//") \/ startsWith(t, "/*") \/ startsWith(t, "*")

\* A scanner that does not recognise an explicit print call.
HasPrintCallMissing(t) == FALSE

\* trimmedLine.includes('console.')
HasPrintCall(t) == includes(t, "console.")

\* trimmedLine.match(/^(const|let|var)\s+(\w+)\s*=/)
varMatch(t) ==
    \E kw \in {"const", "let", "var"} :
        LET a == SkipSpaces(t, Len(kw) + 1)
            b == SkipWord(t, a)
        IN /\ startsWith(t, kw)
           /\ a > Len(kw) + 1
           /\ b > a
           /\ At(t, SkipSpaces(t, b)) = "="

\* /^[\w.]+\([^)]*\)$/
IsCall(t) ==
    LET a == SkipWordOrDot(t, 1)
        b == SkipUntil(t, a + 1, {")"})
    IN a > 1 /\ At(t, a) = "(" /\ b = Len(t) /\ At(t, b) = ")"

\* (t.match(/[\[{]/g) || []).length - (t.match(/[\]}]/g) || []).length
NetBrackets(t) == CountIn(t, {"[", "{"}) - CountIn(t, {"]", "}"})

controlKeywords ==
    {"function", "class", "import", "export", "if", "else", "for", "while", "do",
     "switch", "case", "default", "try", "catch", "finally", "throw", "return",
     "break", "continue"}

isControlFlowStatement(line) ==
    \E keyword \in controlKeywords :
        \/ startsWith(line, keyword \o " ")
        \/ startsWith(line, keyword \o "(")
        \/ startsWith(line, keyword \o "{")

isStructuralLine(line) ==
    \/ line \in {"{", "}", "};", "})", ");", "]", "],"}
    \/ endsWith(line, "{")

\* line.replace(/;$/, '')
StripSemicolon(line) ==
    IF endsWith(line, ";") THEN SubSeq(line, 1, Len(line) - 1) ELSE line

\* /^[\w.]+\[[^\]]+\]$/
IsIndexAccess(t) ==
    LET a == SkipWordOrDot(t, 1)
        b == SkipUntil(t, a + 1, {"]"})
    IN a > 1 /\ At(t, a) = "[" /\ b > a + 1 /\ b = Len(t) /\ At(t, b) = "]"

\* /^[\w.]+$/
IsIdentifier(t) == Len(t) > 0 /\ SkipWordOrDot(t, 1) = Len(t) + 1

\* /^\d+\s*[\+\-\*\/\%]\s*.+$/
IsNumberMath(t) ==
    LET a == SkipDigits(t, 1)
        b == SkipSpaces(t, a)
    IN a > 1 /\ IsOperator(At(t, b)) /\ b < Len(t)

\* /^.+\s*[\+\-\*\/\%]\s*.+$/
IsMath(t) == \E k \in 2..(Len(t) - 1) : IsOperator(At(t, k))

\* /^new\s+\w+\([^)]*\)$/
IsConstructorCall(t) ==
    LET a == SkipSpaces(t, 4)
        b == SkipWord(t, a)
        c == SkipUntil(t, b + 1, {")"})
    IN /\ startsWith(t, "new")
       /\ a > 4
       /\ b > a
       /\ At(t, b) = "("
       /\ c = Len(t)
       /\ At(t, c) = ")"

\* /^\[.*\]$/  and  /^\{.*\}$/
IsLiteral(t) ==
    /\ Len(t) >= 2
    /\ \/ startsWith(t, "[") /\ endsWith(t, "]")
       \/ startsWith(t, "{") /\ endsWith(t, "}")

shouldAutoLog(line) ==
    IF At(line, Len(line)) \in {".", "+", "-", "*", "/", ","} THEN FALSE
    ELSE IF \E m \in {".then(", ".catch(", ".finally("} : startsWith(line, m) THEN FALSE
    ELSE LET lineWithoutSemicolon == StripSemicolon(line)
         IN \/ IsCall(lineWithoutSemicolon)
            \/ IsIndexAccess(lineWithoutSemicolon)
            \/ IsIdentifier(lineWithoutSemicolon)
            \/ IsNumberMath(lineWithoutSemicolon)
            \/ IsMath(lineWithoutSemicolon)
            \/ IsConstructorCall(lineWithoutSemicolon)
            \/ IsLiteral(lineWithoutSemicolon)

\* line.match(/^\s*/)?.[0] || ''
Indent(line) == SubSeq(line, 1, SkipSpaces(line, 1) - 1)

\* lines[i + 1].trim().startsWith('.'), false past the last line (k is 1-based)
NextStartsWithDot(ls, k) == k + 1 <= Len(ls) /\ startsWith(trim(ls[k + 1]), ".")

\* The scanner's state between two iterations of the loop.
Mode(m, d, c) == [insideMultiLine |-> m, bracketDepth |-> d, insideChainedCall |-> c]

Scanned(line, verdict, mode) == [line |-> line, verdict |-> verdict, mode |-> mode]

\* One iteration of the for loop of wrapCodeToCapture on ls[k] (1-based) in
\* mode st: the line pushed, the branch that pushed it, the mode left behind.
ScanStep(ls, k, st) ==
    LET line == ls[k]
        trimmedLine == trim(line)
        net == NetBrackets(trimmedLine)
    IN IF IsBlankOrComment(trimmedLine) THEN Scanned(line, "blank", st)
       ELSE IF HasPrintCall(trimmedLine) THEN Scanned(line, "console", st)
       ELSE IF varMatch(trimmedLine)
            THEN Scanned(line, "decl",
                     IF includes(trimmedLine, "[") \/ includes(trimmedLine, "{")
                     THEN Mode(net # 0, net, st.insideChainedCall)
                     ELSE st)
       ELSE IF st.insideMultiLine
            THEN Scanned(line, "multi",
                     IF st.bracketDepth + net <= 0
                     THEN Mode(FALSE, 0, st.insideChainedCall)
                     ELSE Mode(TRUE, st.bracketDepth + net, st.insideChainedCall))
       ELSE IF IsCall(trimmedLine) /\ ~endsWith(trimmedLine, ");") /\ NextStartsWithDot(ls, k)
            THEN Scanned(line, "chainStart", Mode(st.insideMultiLine, st.bracketDepth, TRUE))
       ELSE IF st.insideChainedCall
            THEN Scanned(line, "chain",
                     IF \/ ~startsWith(trimmedLine, ".")
                        \/ endsWith(trimmedLine, ")") /\ ~NextStartsWithDot(ls, k)
                     THEN Mode(st.insideMultiLine, st.bracketDepth, FALSE)
                     ELSE st)
       ELSE IF isControlFlowStatement(trimmedLine) THEN Scanned(line, "control", st)
       ELSE IF isStructuralLine(trimmedLine) THEN Scanned(line, "structural", st)
       ELSE IF shouldAutoLog(trimmedLine)
            THEN Scanned(Indent(line) \o "console.log(" \o trimmedLine \o ")", "wrap", st)
       ELSE Scanned(line, "plain", st)

RECURSIVE ScanFrom(_, _, _)
ScanFrom(ls, k, st) ==
    IF k > Len(ls) THEN <<>>
    ELSE LET r == ScanStep(ls, k, st) IN <<r.line>> \o ScanFrom(ls, k + 1, r.mode)

\* The whole pass: what wrapCodeToCapture returns.
wrapCodeToCapture(c) == Join(ScanFrom(split(c), 1, Mode(FALSE, 0, FALSE)), "\n")

-----------------------------------------------------------------------------
(* Snippet behaviours.  A snippet is seen by the engine through what its   *)
(* async function body does: an ordered list of operations.                *)

Never == 0 - 1

Op(o, v, d) == [op |-> o, val |-> v, delay |-> d]

\* console.log(v) / console.error(v) / console.warn(v)
PLog(v) == Op("log", v, 0)

PError(v) == Op("error", v, 0)

PWarn(v) == Op("warn", v, 0)

\* throw v
PThrow(v) == Op("throw", v, 0)

\* setTimeout(() => console.log(v), d)
PTimer(d, v) == Op("timer", v, d)

\* await new Promise(r => setTimeout(r, d));  d = Never: a promise nobody resolves
PAwait(d) == Op("await", "", d)

\* while (true) {}
PSpin == Op("spin", "", 0)

\* global.x = v   and   console.log(global.x)
PSetGlobal(v) == Op("setGlobal", v, 0)

PLogGlobal == Op("logGlobal", "", 0)

Prog(c, ops) == [compiles |-> c, ops |-> ops]

\* a snippet that does not compile
BrokenProgram == Prog(FALSE, <<>>)

\* console.log('a'); console.warn('w'); throw new Error('boom')
ThrowingProgram == Prog(TRUE, <<PLog("a"), PWarn("w"), PThrow("boom")>>)

\* setTimeout(() => console.log('late'), asyncDrainMs * 10)
LateProgram == Prog(TRUE, <<PTimer(10 * ConfigAsyncTimeout, "late")>>)

\* a timer callback between two synchronous stretches, then a rejection
InterleavedProgram ==
    Prog(TRUE, <<PTimer(100, "t1"), PLog("s1"), PAwait(200), PError("s2"), PThrow("later")>>)

\* console.log('a'); await new Promise(() => {})
NeverProgram == Prog(TRUE, <<PLog("a"), PAwait(Never)>>)

\* console.log('a'); setTimeout(...); while (true) {}
SpinningProgram == Prog(TRUE, <<PLog("a"), PTimer(100, "t"), PSpin>>)

\* await sleep(100); while (true) {}
LateSpinProgram == Prog(TRUE, <<PAwait(100), PSpin>>)

\* console.log(global.x); global.x = 'mine'
GlobalProgram == Prog(TRUE, <<PLogGlobal, PSetGlobal("mine")>>)

Programs ==
    { BrokenProgram, ThrowingProgram, LateProgram, InterleavedProgram, NeverProgram,
      SpinningProgram, LateSpinProgram, GlobalProgram }

\* RunCodeCommand passes the configured values, FileWatcher passes no options.
RunOptions == [timeout |-> ConfigExecutionTimeout, asyncTimeout |-> ConfigAsyncTimeout]

NoOptions == [timeout |-> 0, asyncTimeout |-> 0]

Null == [null |-> TRUE]

-----------------------------------------------------------------------------
(* The sandbox *)

\* stringify: a string prints as itself, undefined as "undefined"
stringify(value) == value

\* console.log / console.error / console.warn of the sandbox: the line pushed
ConsoleLine(kind, value) ==
    CASE kind = "log" -> stringify(value)
      [] kind = "error" -> "[ERROR] " \o stringify(value)
      [] kind = "warn" -> "[WARN] " \o stringify(value)

\* One entry of the history of an output record.
Entry(kind, value, late) == [kind |-> kind, val |-> value, late |-> late]

Timer(e, kind, delay, value) ==
    [eval |-> e, kind |-> kind, delay |-> delay, due |-> now + delay, val |-> value]

RECURSIVE RunBody(_, _, _)
\* The async function body of evaluation e, run from st.ip until it awaits,
\* ends, throws or loops.  st carries what the run has changed so far.
RunBody(e, ops, st) ==
    IF st.ip > Len(ops) THEN [st EXCEPT !.status = "done"]
    ELSE LET o == ops[st.ip]
             next == [st EXCEPT !.ip = @ + 1]
         IN CASE o.op \in {"log", "error", "warn"} ->
                   RunBody(e, ops, [next EXCEPT
                       !.out = Append(@, ConsoleLine(o.op, o.val)),
                       !.log = Append(@, Entry(o.op, o.val, FALSE))])
              [] o.op = "logGlobal" ->
                   RunBody(e, ops, [next EXCEPT
                       !.out = Append(@, ConsoleLine("log", st.glob)),
                       !.log = Append(@, Entry("log", st.glob, FALSE))])
              [] o.op = "setGlobal" ->
                   RunBody(e, ops, [next EXCEPT !.glob = o.val])
              [] o.op = "timer" ->
                   RunBody(e, ops, [next EXCEPT
                       !.tm = Append(@, Timer(e, "print", o.delay, o.val))])
              [] o.op = "await" ->
                   [next EXCEPT !.status = "await",
                                !.tm = IF o.delay = Never THEN @
                                       ELSE Append(@, Timer(e, "resume", o.delay, ""))]
              [] o.op = "throw" -> [st EXCEPT !.status = "threw", !.err = o.val]
              [] o.op = "spin" -> [st EXCEPT !.status = "spin"]

BodyState(e) ==
    [ip |-> ip[e], out |-> outputs[e], log |-> log[e], tm |-> timers,
     glob |-> hostGlobal, status |-> "running", err |-> ""]

\* err instanceof Error ? err.message : String(err)
errorMessage(err) == err

\* A success path without the marker: the captured lines joined, whatever they are.
SuccessOutputJoined(out) == Join(out, "\n")

\* outputs.length > 0 ? outputs.join('\n') : '(sin salida)'
SuccessOutput(out) == IF Len(out) > 0 THEN Join(out, "\n") ELSE EmptyMarker

\* A catch block that drops the lines captured before the failure.
FailureOutputDropped(out) == ""

\* outputs.length > 0 ? outputs.join('\n') : ''
FailureOutput(out) == IF Len(out) > 0 THEN Join(out, "\n") ELSE ""

SuccessResult(out, t) ==
    [success |-> TRUE, output |-> SuccessOutput(out), executionTime |-> t]

FailureResult(out, err, t) ==
    [success |-> FALSE, output |-> FailureOutput(out), error |-> errorMessage(err),
     executionTime |-> t]

\* options.timeout || this.defaultTimeout
EffectiveTimeout(opts) == IF opts.timeout # 0 THEN opts.timeout ELSE defaultTimeout

\* options.asyncTimeout || 2000
EffectiveAsyncTimeout(opts) ==
    IF opts.asyncTimeout # 0 THEN opts.asyncTimeout ELSE DefaultAsyncTimeout

InFlight(e) == pc[e] \in {"awaitHandle", "drain"}

\* A continuation is queued: it runs before the event loop takes anything else.
MicrotaskReady == \E e \in Evals : pc[e] = "awaitHandle" /\ handle[e].state # "pending"

\* The event loop can take a new task.
LoopFree == ~hung /\ ~MicrotaskReady

\* Timer k is the one Node runs next: it is due, none is due earlier, and none
\* of the same duration and expiry was created before it.
IsNextTimer(k) ==
    /\ timers[k].due <= now
    /\ \A j \in 1..Len(timers) :
          /\ timers[j].due >= timers[k].due
          /\ (j < k /\ timers[j].due = timers[k].due) => timers[j].delay # timers[k].delay

RemoveAt(s, k) == SubSeq(s, 1, k - 1) \o SubSeq(s, k + 1, Len(s))

-----------------------------------------------------------------------------
(* Values a snippet prints, and CodeExecutor.formatAsTable *)

MaxRows == 2

\* A property of an object: its key and the value under it.
Prop(k, v) == [key |-> k, val |-> v]

\* The value of a property: a string, or null.
StrVal(t) == [kind |-> "string", text |-> t]

NullVal == [kind |-> "null", text |-> ""]

\* An element of an array: a plain object with its properties in insertion
\* order, null, or a number.
Obj(props) == [kind |-> "object", props |-> props]

JsNull == [kind |-> "null", props |-> <<>>]

JsNumber == [kind |-> "number", props |-> <<>>]

RECURSIVE escapeHtml(_)
\* String(text).replace(/[&<>"']/g, char => map[char])
escapeHtml(text) ==
    IF Len(text) = 0 THEN ""
    ELSE LET c == At(text, 1)
             e == CASE c = "&" -> "&amp;"
                    [] c = "<" -> "&lt;"
                    [] c = ">" -> "&gt;"
                    [] c = "\"" -> "&quot;"
                    [] c = "'" -> "&#039;"
                    [] OTHER -> c
         IN e \o escapeHtml(SubSeq(text, 2, Len(text)))

\* first !== null && typeof first === 'object' && !Array.isArray(first) && ...
isArrayOfObjects(a) == Len(a) > 0 /\ a[1].kind = "object"

HasKey(keys, k) == \E j \in 1..Len(keys) : keys[j] = k

RECURSIVE AddKeys(_, _)
\* Object.keys(obj).forEach(key => keys.add(key))
AddKeys(keys, props) ==
    IF Len(props) = 0 THEN keys
    ELSE AddKeys(IF HasKey(keys, props[1].key) THEN keys ELSE Append(keys, props[1].key),
                 Tail(props))

RECURSIVE CollectKeys(_, _)
\* the first arr.forEach: only elements with obj && typeof obj === 'object'
CollectKeys(a, keys) ==
    IF Len(a) = 0 THEN keys
    ELSE CollectKeys(Tail(a),
                     IF a[1].kind = "object" THEN AddKeys(keys, a[1].props) ELSE keys)

\* The table text up to and including '  <tbody>\n'
TableHead(hs) ==
    "<table class=\"data-table\">\n" \o "  <thead>\n    <tr>\n"
    \o Join([k \in 1..Len(hs) |-> "      <th>" \o escapeHtml(hs[k]) \o "</th>\n"], "")
    \o "    </tr>\n  </thead>\n" \o "  <tbody>\n"

HasProp(obj, header) == \E j \in 1..Len(obj.props) : obj.props[j].key = header

\* value === undefined ? '' : value === null ? 'null' : ... String(value)
displayValue(obj, header) ==
    IF ~HasProp(obj, header) THEN ""
    ELSE LET value == obj.props[CHOOSE j \in 1..Len(obj.props) :
                                    obj.props[j].key = header].val
         IN IF value.kind = "null" THEN "null" ELSE value.text

\* obj[header] with obj null: a TypeError
RowThrows(obj, hs) == obj.kind = "null" /\ Len(hs) > 0

TableRow(obj, hs) ==
    "    <tr>\n"
    \o Join([k \in 1..Len(hs) |->
                "      <td>" \o escapeHtml(displayValue(obj, hs[k])) \o "</td>\n"], "")
    \o "    </tr>\n"

TableTail == "  </tbody>\n" \o "</table>"

\* formatAsTable as a whole: the text it returns, or that it threw.
formatAsTable(a) ==
    IF Len(a) = 0 THEN [threw |-> FALSE, text |-> "[]"]
    ELSE LET hs == CollectKeys(a, <<>>)
         IN IF \E k \in 1..Len(a) : RowThrows(a[k], hs)
            THEN [threw |-> TRUE, text |-> ""]
            ELSE [threw |-> FALSE,
                  text |-> TableHead(hs)
                           \o Join([k \in 1..Len(a) |-> TableRow(a[k], hs)], "")
                           \o TableTail]

ElementPool ==
    { Obj(<<Prop("a", StrVal("1"))>>),
      Obj(<<Prop("b", StrVal("2"))>>),
      Obj(<<Prop("a", StrVal("1")), Prop("b", StrVal("2"))>>),
      Obj(<<Prop("b", StrVal("<x>")), Prop("a", NullVal)>>),
      Obj(<<>>),
      JsNull,
      JsNumber }

\* stringify hands an array to formatAsTable when it is not empty and
\* isArrayOfObjects holds for it.
Arrays ==
    { a \in UNION { [1..n -> ElementPool] : n \in 1..MaxRows } : isArrayOfObjects(a) }

\* formatAsTable up to the end of the header: the keys, the opening tags.
BuildHeader ==
    /\ tablePhase = "keys"
    /\ headers' = CollectKeys(arr, <<>>)
    /\ table' = TableHead(headers')
    /\ row' = 0
    /\ tablePhase' = "rows"
    /\ UNCHANGED arr
    /\ UNCHANGED <<engineVars, textVars, panelVars, callerVars>>

\* One iteration of the second arr.forEach.
BodyRow ==
    /\ tablePhase = "rows"
    /\ row < Len(arr)
    /\ IF RowThrows(arr[row + 1], headers)
       THEN /\ tablePhase' = "threw"
            /\ UNCHANGED <<table, row>>
       ELSE /\ table' = table \o TableRow(arr[row + 1], headers)
            /\ row' = row + 1
            /\ UNCHANGED tablePhase
    /\ UNCHANGED <<arr, headers>>
    /\ UNCHANGED <<engineVars, textVars, panelVars, callerVars>>

\* The closing tags; return table.
FinishTable ==
    /\ tablePhase = "rows"
    /\ row = Len(arr)
    /\ table' = table \o TableTail
    /\ tablePhase' = "done"
    /\ UNCHANGED <<arr, headers, row>>
    /\ UNCHANGED <<engineVars, textVars, panelVars, callerVars>>

TableIdle ==
    /\ tablePhase = "off"
    /\ arr = <<>>
    /\ headers = <<>>
    /\ table = ""
    /\ row = 0

TableInit ==
    /\ tablePhase = "keys"
    /\ arr \in Arrays
    /\ headers = <<>>
    /\ table = ""
    /\ row = 0

-----------------------------------------------------------------------------
(* The display layer: OutputPanel *)

MaxOutputLines == 2

OutputLinePool == {"a", "b", "c"}

TableA == formatAsTable(<<Obj(<<Prop("k", StrVal("1"))>>)>>).text

TableB == formatAsTable(<<Obj(<<Prop("k", StrVal("2"))>>)>>).text

\* Output records of evaluations that printed lines only.
LineOutputs == UNION { [1..n -> OutputLinePool] : n \in 0..MaxOutputLines }

\* Output records of evaluations that printed a table.
TableOutputs == { <<TableA>>, <<"a", TableA>>, <<"a", TableB>> }

\* The results execute hands to update: of runs by the Run command (drain
\* window from the configuration) and of runs on save (no options given).
PanelResults ==
    { SuccessResult(out, ConfigAsyncTimeout) : out \in LineOutputs }
    \cup { SuccessResult(out, DefaultAsyncTimeout) : out \in TableOutputs }
    \cup { FailureResult(<<>>, SyntaxErrorMessage, 0) }
    \cup { FailureResult(out, TimeoutMessage, defaultTimeout) :
               out \in UNION { [1..n -> OutputLinePool] : n \in 0..1 } }

\* String.prototype.indexOf(p, from), 1-based; 0 where JavaScript gives -1
IndexOf(s, p, from) ==
    LET hits == {k \in from..Len(s) : StartsWithAt(s, p, k)}
    IN IF hits = {} THEN 0 ELSE CHOOSE k \in hits : \A m \in hits : k <= m

TableOpen == "<table class=\"data-table\">"

TableClose == "</table>"

IsNotBlank(line) == trim(line) # ""

LinePart(line) == [table |-> FALSE, text |-> line]

\* The lines of a stretch of text outside tables that formatOutputAsLines
\* turns into output-line elements: those that are not blank
LineParts(text) ==
    LET ls == SelectSeq(split(text), IsNotBlank)
    IN [k \in 1..Len(ls) |-> LinePart(ls[k])]

RECURSIVE PartsFrom(_)
\* The while loop of formatOutputAsLines on what remains of the output
PartsFrom(remaining) ==
    IF Len(remaining) = 0 THEN <<>>
    ELSE LET tableStart == IndexOf(remaining, TableOpen, 1)
         IN IF tableStart = 0 THEN LineParts(remaining)
            ELSE LET before == IF tableStart > 1
                               THEN LineParts(SubSeq(remaining, 1, tableStart - 1))
                               ELSE <<>>
                     tableEnd == IndexOf(remaining, TableClose, tableStart)
                 IN IF tableEnd = 0 THEN before
                    ELSE before
                         \o <<[table |-> TRUE,
                               text |-> SubSeq(remaining, tableStart, tableEnd + 7)]>>
                         \o PartsFrom(SubSeq(remaining, tableEnd + 8, Len(remaining)))

\* formatOutputAsLines: the elements the output is rendered as, in order
\* (a table as it is, a line inside an output-line element)
formatOutputAsLines(output) ==
    IF includes(output, TableOpen) THEN PartsFrom(output)
    ELSE LET ls == split(output) IN [k \in 1..Len(ls) |-> LinePart(ls[k])]

\* The literal result clear() renders.
ClearedResult == [success |-> TRUE, output |-> ""]

\* The content of a webview nothing was assigned to.
Blank == [blank |-> TRUE]

\* Content a patch was applied to that was computed against something else.
Stale == [stale |-> TRUE]

\* newResult.error, as a condition
HasError(r) == "error" \in DOMAIN r /\ r.error # ""

\* A display layer that patches whatever the two results are.
canDoIncrementalUpdateAlways(oldResult, newResult) == TRUE

canDoIncrementalUpdate(oldResult, newResult) ==
    IF oldResult.success # newResult.success \/ HasError(newResult) THEN FALSE
    ELSE IF oldResult.output = "" \/ newResult.output = "" THEN FALSE
    ELSE TRUE

\* A diff that reports every common index as modified, with the old content,
\* and no index as added or removed.
DiffFromOldContent(oldLines, newLines, k) ==
    [j \in 1..(IF Len(oldLines) < Len(newLines) THEN Len(oldLines) ELSE Len(newLines)) |->
        [type |-> "modify", index |-> j - 1, content |-> oldLines[j]]]

\* A diff that sends every line of the new output and removes none.
DiffFromNewLinesOnly(oldLines, newLines, k) ==
    [j \in 1..Len(newLines) |->
        [type |-> IF j > Len(oldLines) THEN "add" ELSE "modify",
         index |-> j - 1, content |-> newLines[j]]]

RECURSIVE DiffFrom(_, _, _)
\* The for loop of getDiff from index k (0-based): changes.outputChanges
DiffFrom(oldLines, newLines, k) ==
    LET maxLen == IF Len(oldLines) > Len(newLines) THEN Len(oldLines) ELSE Len(newLines)
    IN IF k >= maxLen THEN <<>>
       ELSE (IF k >= Len(oldLines)
             THEN <<[type |-> "add", index |-> k, content |-> newLines[k + 1]]>>
             ELSE IF k >= Len(newLines)
             THEN <<[type |-> "remove", index |-> k]>>
             ELSE IF oldLines[k + 1] # newLines[k + 1]
             THEN <<[type |-> "modify", index |-> k, content |-> newLines[k + 1]]>>
             ELSE <<>>)
            \o DiffFrom(oldLines, newLines, k + 1)

getDiff(oldResult, newResult) ==
    [executionTime |-> newResult.executionTime,
     success |-> newResult.success,
     outputChanges |-> DiffFrom(split(oldResult.output), split(newResult.output), 0)]

\* The body of OutputPanel.update(result, showPanel); revealing the panel
\* changes nothing here.
updatePanel(res) ==
    LET content == IF panel THEN shown ELSE Blank
    IN /\ IF lastResult # Null /\ canDoIncrementalUpdate(lastResult, res)
          THEN LET msg == [command |-> "updateDiff", data |-> getDiff(lastResult, res)]
               IN /\ message' = msg
                  /\ shown' = IF content = lastResult THEN res ELSE Stale
                  /\ lastUpdate' = [kind |-> "patch", old |-> lastResult, sent |-> msg]
          ELSE /\ message' = Null
               /\ shown' = res
               /\ lastUpdate' = [kind |-> "render", old |-> lastResult, sent |-> Null]
       /\ panel' = TRUE
       /\ lastResult' = res

\* OutputPanel.update called on its own
update(res) ==
    /\ updatePanel(res)
    /\ UNCHANGED <<engineVars, textVars, tableVars, callerVars>>

\* OutputPanel.clear
clear ==
    /\ IF panel
       THEN shown' = ClearedResult /\ message' = Null
       ELSE UNCHANGED <<shown, message>>
    /\ UNCHANGED <<panel, lastResult, lastUpdate>>
    /\ UNCHANGED <<engineVars, textVars, tableVars, callerVars>>

\* OutputPanel.show: reveal the panel, or create it
show ==
    /\ IF panel
       THEN UNCHANGED <<panel, shown, message>>
       ELSE panel' = TRUE /\ shown' = Blank /\ message' = Null
    /\ UNCHANGED <<lastResult, lastUpdate>>
    /\ UNCHANGED <<engineVars, textVars, tableVars, callerVars>>

\* The user closes the panel: the onDidDispose callback of createPanel
onDidDispose ==
    /\ panel
    /\ panel' = FALSE
    /\ shown' = Blank
    /\ message' = Null
    /\ UNCHANGED <<lastResult, lastUpdate>>
    /\ UNCHANGED <<engineVars, textVars, tableVars, callerVars>>

PanelInit ==
    /\ delivered = {}
    /\ panel = FALSE
    /\ lastResult = Null
    /\ shown = Blank
    /\ message = Null
    /\ lastUpdate = [kind |-> "none", old |-> Null, sent |-> Null]

-----------------------------------------------------------------------------
(* The engine: CodeExecutor.execute and CodeExecutor.stopExecution *)

\* The execute call of evaluation e returns res to its caller.
Return(e, res) ==
    /\ pc' = [pc EXCEPT ![e] = "returned"]
    /\ result' = [result EXCEPT ![e] = res]

\* execute(code, options), from its first statement to its first await: the
\* controller, the fresh sandbox and output record, new Script and
\* script.runInContext under the CPU-time budget.
execute(e, prog, opts, who) ==
    /\ LoopFree
    /\ pc[e] = "idle"
    /\ \A d \in Evals : d < e => pc[d] # "idle"
    /\ abortController' = e
    /\ program' = [program EXCEPT ![e] = prog]
    /\ options' = [options EXCEPT ![e] = opts]
    /\ caller' = [caller EXCEPT ![e] = who]
    /\ startTime' = [startTime EXCEPT ![e] = now]
    /\ UNCHANGED <<aborted, hung, cancelledInFlight>>
    /\ IF ~prog.compiles
       THEN \* new Script(finalCode) throws: the catch block
            /\ outputs' = [outputs EXCEPT ![e] = <<>>]
            /\ now' = now
            /\ Return(e, FailureResult(<<>>, SyntaxErrorMessage, 0))
            /\ UNCHANGED <<hostGlobal, timers, ip, handle, log>>
       ELSE LET st == RunBody(e, prog.ops,
                          [BodyState(e) EXCEPT !.ip = 1, !.out = <<>>, !.log = <<>>])
            IN /\ outputs' = [outputs EXCEPT ![e] = st.out]
               /\ log' = [log EXCEPT ![e] = st.log]
               /\ hostGlobal' = st.glob
               /\ timers' = st.tm
               /\ ip' = [ip EXCEPT ![e] = st.ip]
               /\ IF st.status = "spin"
                  THEN \* runInContext throws after the budget: the catch block
                       /\ now' = now + EffectiveTimeout(opts)
                       /\ Return(e, FailureResult(st.out, TimeoutMessage,
                                                  EffectiveTimeout(opts)))
                       /\ UNCHANGED handle
                  ELSE /\ now' = now
                       /\ pc' = [pc EXCEPT ![e] = "awaitHandle"]
                       /\ handle' = [handle EXCEPT ![e] =
                              CASE st.status = "await" -> [state |-> "pending", err |-> ""]
                                [] st.status = "done" -> [state |-> "fulfilled", err |-> ""]
                                [] st.status = "threw" -> [state |-> "rejected", err |-> st.err]]
                       /\ UNCHANGED result

\* RunCodeCommand.execute: the Run command
RunCodeCommand(e) ==
    /\ \E prog \in Programs : execute(e, prog, RunOptions, "run")
    /\ UNCHANGED nonEngineVars

\* FileWatcher.handleFileChange: a watched file was saved
handleFileChange(e) ==
    /\ \E prog \in Programs : execute(e, prog, NoOptions, "save")
    /\ UNCHANGED nonEngineVars

\* An execute whose `await result` lets a rejection reach the outer catch block.
AwaitSettledRethrow(e) ==
    /\ ~hung
    /\ pc[e] = "awaitHandle"
    /\ handle[e].state # "pending"
    /\ IF handle[e].state = "rejected"
       THEN /\ Return(e, FailureResult(outputs[e], handle[e].err, now - startTime[e]))
            /\ UNCHANGED timers
       ELSE /\ timers' = Append(timers,
                             Timer(e, "drain", EffectiveAsyncTimeout(options[e]), ""))
            /\ pc' = [pc EXCEPT ![e] = "drain"]
            /\ UNCHANGED result
    /\ UNCHANGED <<abortController, aborted, hostGlobal, now, hung, program, options,
                   caller, startTime, outputs, ip, handle, log, cancelledInFlight>>
    /\ UNCHANGED nonEngineVars

\* execute resumes from `await result`: a rejection becomes an output line,
\* then waitForAsyncOperations(asyncTimeout) starts the drain window.
AwaitSettled(e) ==
    /\ ~hung
    /\ pc[e] = "awaitHandle"
    /\ handle[e].state # "pending"
    /\ IF handle[e].state = "rejected"
       THEN /\ outputs' = [outputs EXCEPT
                   ![e] = Append(@, "[ERROR] " \o errorMessage(handle[e].err))]
            /\ log' = [log EXCEPT ![e] = Append(@, Entry("reject", handle[e].err, FALSE))]
       ELSE UNCHANGED <<outputs, log>>
    /\ timers' = Append(timers, Timer(e, "drain", EffectiveAsyncTimeout(options[e]), ""))
    /\ pc' = [pc EXCEPT ![e] = "drain"]
    /\ UNCHANGED <<abortController, aborted, hostGlobal, now, hung, program, options,
                   caller, startTime, ip, handle, result, cancelledInFlight>>
    /\ UNCHANGED nonEngineVars

\* The drain window of evaluation e elapses: execute builds its result and returns.
DrainElapsed(k) ==
    /\ LoopFree
    /\ k \in 1..Len(timers)
    /\ IsNextTimer(k)
    /\ timers[k].kind = "drain"
    /\ LET e == timers[k].eval
       IN Return(e, SuccessResult(outputs[e], now - startTime[e]))
    /\ timers' = RemoveAt(timers, k)
    /\ UNCHANGED <<abortController, aborted, hostGlobal, now, hung, program, options,
                   caller, startTime, outputs, ip, handle, log, cancelledInFlight>>
    /\ UNCHANGED nonEngineVars

\* A result that stays bound to its output record: a print after the return
\* rewrites the output of the result already handed out.
TimerPrintLive(k) ==
    /\ LoopFree
    /\ k \in 1..Len(timers)
    /\ IsNextTimer(k)
    /\ timers[k].kind = "print"
    /\ LET e == timers[k].eval
           out == Append(outputs[e], ConsoleLine("log", timers[k].val))
       IN /\ outputs' = [outputs EXCEPT ![e] = out]
          /\ log' = [log EXCEPT
                 ![e] = Append(@, Entry("log", timers[k].val, pc[e] = "returned"))]
          /\ result' = IF pc[e] = "returned"
                       THEN [result EXCEPT ![e].output = Join(out, "\n")]
                       ELSE result
    /\ timers' = RemoveAt(timers, k)
    /\ UNCHANGED <<abortController, aborted, hostGlobal, now, hung, pc, program, options,
                   caller, startTime, ip, handle, cancelledInFlight>>
    /\ UNCHANGED nonEngineVars

\* One output record for the whole engine: a timer callback's line goes to the
\* record of the evaluation started last.
TimerPrintShared(k) ==
    /\ LoopFree
    /\ k \in 1..Len(timers)
    /\ IsNextTimer(k)
    /\ timers[k].kind = "print"
    /\ LET e == CHOOSE d \in Evals : pc[d] # "idle" /\ \A c \in Evals : pc[c] # "idle" => c <= d
       IN /\ outputs' = [outputs EXCEPT ![e] = Append(@, ConsoleLine("log", timers[k].val))]
          /\ log' = [log EXCEPT
                 ![e] = Append(@, Entry("log", timers[k].val, pc[e] = "returned"))]
    /\ timers' = RemoveAt(timers, k)
    /\ UNCHANGED <<abortController, aborted, hostGlobal, now, hung, pc, program, options,
                   caller, startTime, ip, handle, result, cancelledInFlight>>
    /\ UNCHANGED nonEngineVars

\* An output record that is not append-only: a timer callback's line goes first.
TimerPrintFirst(k) ==
    /\ LoopFree
    /\ k \in 1..Len(timers)
    /\ IsNextTimer(k)
    /\ timers[k].kind = "print"
    /\ LET e == timers[k].eval
       IN /\ outputs' = [outputs EXCEPT
                 ![e] = <<ConsoleLine("log", timers[k].val)>> \o @]
          /\ log' = [log EXCEPT
                 ![e] = Append(@, Entry("log", timers[k].val, pc[e] = "returned"))]
    /\ timers' = RemoveAt(timers, k)
    /\ UNCHANGED <<abortController, aborted, hostGlobal, now, hung, pc, program, options,
                   caller, startTime, ip, handle, result, cancelledInFlight>>
    /\ UNCHANGED nonEngineVars

\* A timer callback of a snippet prints: the sandbox's console.log pushes to
\* the output record of the evaluation that built the sandbox.
TimerPrint(k) ==
    /\ LoopFree
    /\ k \in 1..Len(timers)
    /\ IsNextTimer(k)
    /\ timers[k].kind = "print"
    /\ LET e == timers[k].eval
       IN /\ outputs' = [outputs EXCEPT ![e] = Append(@, ConsoleLine("log", timers[k].val))]
          /\ log' = [log EXCEPT
                 ![e] = Append(@, Entry("log", timers[k].val, pc[e] = "returned"))]
    /\ timers' = RemoveAt(timers, k)
    /\ UNCHANGED <<abortController, aborted, hostGlobal, now, hung, pc, program, options,
                   caller, startTime, ip, handle, result, cancelledInFlight>>
    /\ UNCHANGED nonEngineVars

\* The promise a snippet awaits resolves: its body runs on, outside any budget.
SnippetResume(k) ==
    /\ LoopFree
    /\ k \in 1..Len(timers)
    /\ IsNextTimer(k)
    /\ timers[k].kind = "resume"
    /\ LET e == timers[k].eval
           st == RunBody(e, program[e].ops,
                         [BodyState(e) EXCEPT !.tm = RemoveAt(timers, k)])
       IN /\ outputs' = [outputs EXCEPT ![e] = st.out]
          /\ log' = [log EXCEPT ![e] = st.log]
          /\ hostGlobal' = st.glob
          /\ timers' = st.tm
          /\ ip' = [ip EXCEPT ![e] = st.ip]
          /\ hung' = (st.status = "spin")
          /\ handle' = [handle EXCEPT ![e] =
                 CASE st.status \in {"await", "spin"} -> @
                   [] st.status = "done" -> [state |-> "fulfilled", err |-> ""]
                   [] st.status = "threw" -> [state |-> "rejected", err |-> st.err]]
    /\ UNCHANGED <<abortController, aborted, now, pc, program, options, caller,
                   startTime, result, cancelledInFlight>>
    /\ UNCHANGED nonEngineVars

\* Nothing is runnable: the clock reaches the next timer's expiry.
AdvanceTime ==
    /\ LoopFree
    /\ Len(timers) > 0
    /\ \A k \in 1..Len(timers) : timers[k].due > now
    /\ \E k \in 1..Len(timers) :
          /\ \A j \in 1..Len(timers) : timers[j].due >= timers[k].due
          /\ now' = timers[k].due
    /\ UNCHANGED <<abortController, aborted, hostGlobal, timers, hung, pc, program,
                   options, caller, startTime, outputs, ip, handle, result, log,
                   cancelledInFlight>>
    /\ UNCHANGED nonEngineVars

\* CodeExecutor.stopExecution
stopExecution ==
    /\ LoopFree
    /\ IF abortController # 0
       THEN /\ aborted' = aborted \cup {abortController}
            /\ abortController' = 0
            /\ cancelledInFlight' = IF InFlight(abortController)
                                    THEN cancelledInFlight \cup {abortController}
                                    ELSE cancelledInFlight
       ELSE UNCHANGED <<abortController, aborted, cancelledInFlight>>
    /\ UNCHANGED <<hostGlobal, now, timers, hung, pc, program, options, caller,
                   startTime, outputs, ip, handle, result, log>>
    /\ UNCHANGED nonEngineVars

EngineInit ==
    /\ abortController = 0
    /\ aborted = {}
    /\ hostGlobal = "undefined"
    /\ now = 0
    /\ timers = <<>>
    /\ hung = FALSE
    /\ pc = [e \in Evals |-> "idle"]
    /\ program = [e \in Evals |-> Null]
    /\ options = [e \in Evals |-> Null]
    /\ caller = [e \in Evals |-> "none"]
    /\ startTime = [e \in Evals |-> 0]
    /\ outputs = [e \in Evals |-> <<>>]
    /\ ip = [e \in Evals |-> 1]
    /\ handle = [e \in Evals |-> Null]
    /\ result = [e \in Evals |-> Null]
    /\ log = [e \in Evals |-> <<>>]
    /\ cancelledInFlight = {}

TextIdle ==
    /\ phase = "off"
    /\ code = ""
    /\ processedCode = ""
    /\ lines = <<>>
    /\ i = 0
    /\ wrappedLines = <<>>
    /\ insideMultiLine = FALSE
    /\ bracketDepth = 0
    /\ insideChainedCall = FALSE
    /\ verdicts = <<>>
    /\ modes = <<>>
    /\ firstPass = ""

Init == EngineInit /\ TextIdle /\ PanelInit /\ TableIdle

-----------------------------------------------------------------------------
(* The text transforms on bounded snippets *)

LinePool ==
    { "2 + 2;", "foo()", ".then(f)", ".map(f)", "const a = [", "]",
      "console.log(x)", "  x", "return;", "foo(", ".then(f);" }

LineSeqs == UNION { [1..n -> LinePool] : n \in 1..MaxLines }

Sep == {" ", "\n"}

\* The three import shapes, each gap a space or a line break
ImportSnippets ==
    { "import" \o s1 \o "a" \o s2 \o "from" \o s3 \o "'m'" :
          s1 \in Sep, s2 \in Sep, s3 \in Sep }
    \cup
    { "import" \o s1 \o "{" \o s2 \o "a," \o s3 \o "b" \o s2 \o "}" \o s4 \o "from" \o s5 \o "\"m\"" :
          s1 \in Sep, s2 \in Sep, s3 \in Sep, s4 \in Sep, s5 \in Sep }
    \cup
    { "import" \o s1 \o "*" \o s2 \o "as" \o s3 \o "ns" \o s4 \o "from" \o s5 \o "'m'" :
          s1 \in Sep, s2 \in Sep, s3 \in Sep, s4 \in Sep, s5 \in Sep }

\* A named import from a module whose name has a path separator
PathImportSnippets == { "import { readFile } from 'fs/promises'" }

\* Imports with text on both sides, two imports in one snippet, and an import
\* of none of the three shapes
SurroundedImportSnippets ==
    { "foo();\n" \o imp \o ";\nfoo()" : imp \in ImportSnippets }
    \cup { "import a from 'm'; foo()\nimport { b } from \"n\";",
           "import * as ns from 'm'\n\nimport a from 'n'\n2 + 2;",
           "import 'm'", "import('m')\nfoo()" }

\* Declarations whose line closes more brackets or braces than it opens
ClosingDeclSnippets ==
    { "const a = [1]]\n2 + 2;", "let b = {}}\nfoo()\n2 + 2;", "var c = [1]]" }

Snippets ==
    { Join(ls, "\n") : ls \in LineSeqs }
    \cup ClosingDeclSnippets
    \cup ImportSnippets
    \cup PathImportSnippets
    \cup SurroundedImportSnippets
    \cup { imp \o "\n" \o l : imp \in ImportSnippets, l \in {"foo()", "const a = ["} }

StartMode == Mode(FALSE, 0, FALSE)

CurrentMode == Mode(insideMultiLine, bracketDepth, insideChainedCall)

Pass == IF phase = "scan1" THEN 1 ELSE 2

\* execute hands the snippet to convertImportsToRequire, then starts the scan.
Normalize ==
    /\ phase = "input"
    /\ processedCode' = convertImportsToRequire(code)
    /\ lines' = split(processedCode')
    /\ phase' = "scan1"
    /\ UNCHANGED <<code, i, wrappedLines, insideMultiLine, bracketDepth,
                   insideChainedCall, verdicts, modes, firstPass>>
    /\ UNCHANGED nonTextVars

\* One iteration of the for loop of wrapCodeToCapture.
ScanLine ==
    /\ phase \in {"scan1", "scan2"}
    /\ i < Len(lines)
    /\ LET r == ScanStep(lines, i + 1, CurrentMode)
       IN /\ wrappedLines' = Append(wrappedLines, r.line)
          /\ insideMultiLine' = r.mode.insideMultiLine
          /\ bracketDepth' = r.mode.bracketDepth
          /\ insideChainedCall' = r.mode.insideChainedCall
          /\ verdicts' = [verdicts EXCEPT ![Pass] = Append(@, r.verdict)]
          /\ modes' = [modes EXCEPT ![Pass] = Append(@, r.mode)]
    /\ i' = i + 1
    /\ UNCHANGED <<phase, code, processedCode, lines, firstPass>>
    /\ UNCHANGED nonTextVars

\* return wrappedLines.join('\n'); the result is scanned once more.
FinishFirstPass ==
    /\ phase = "scan1"
    /\ i = Len(lines)
    /\ firstPass' = Join(wrappedLines, "\n")
    /\ lines' = split(firstPass')
    /\ i' = 0
    /\ wrappedLines' = <<>>
    /\ insideMultiLine' = FALSE
    /\ bracketDepth' = 0
    /\ insideChainedCall' = FALSE
    /\ phase' = "scan2"
    /\ UNCHANGED <<code, processedCode, verdicts, modes>>
    /\ UNCHANGED nonTextVars

\* return wrappedLines.join('\n') of the second scan.
FinishSecondPass ==
    /\ phase = "scan2"
    /\ i = Len(lines)
    /\ phase' = "done"
    /\ UNCHANGED <<code, processedCode, lines, i, wrappedLines, insideMultiLine,
                   bracketDepth, insideChainedCall, verdicts, modes, firstPass>>
    /\ UNCHANGED nonTextVars

TextInit ==
    /\ phase = "input"
    /\ code \in Snippets
    /\ processedCode = ""
    /\ lines = <<>>
    /\ i = 0
    /\ wrappedLines = <<>>
    /\ insideMultiLine = FALSE
    /\ bracketDepth = 0
    /\ insideChainedCall = FALSE
    /\ verdicts = <<<<>>, <<>>>>
    /\ modes = <<<<>>, <<>>>>
    /\ firstPass = ""

InitText == EngineInit /\ TextInit /\ PanelInit /\ TableIdle

NextText ==
    \/ Normalize
    \/ ScanLine
    \/ FinishFirstPass
    \/ FinishSecondPass

SpecText == InitText /\ [][NextText]_vars

Next ==
    \/ \E e \in Evals : RunCodeCommand(e)
    \/ \E e \in Evals : handleFileChange(e)
    \/ \E e \in Evals : AwaitSettled(e)
    \/ \E k \in 1..Len(timers) : DrainElapsed(k)
    \/ \E k \in 1..Len(timers) : TimerPrint(k)
    \/ \E k \in 1..Len(timers) : SnippetResume(k)
    \/ AdvanceTime
    \/ stopExecution

Spec == Init /\ [][Next]_vars

\* What the event loop does by itself: continuations, timers, the clock.
LoopStep ==
    \/ \E e \in Evals : AwaitSettled(e)
    \/ \E k \in 1..Len(timers) : DrainElapsed(k)
    \/ \E k \in 1..Len(timers) : TimerPrint(k)
    \/ \E k \in 1..Len(timers) : SnippetResume(k)
    \/ AdvanceTime

\* Node's event loop does not idle while a continuation or a timer is ready;
\* nothing obliges the user to run, save or stop.
SpecLive == Init /\ [][Next]_vars /\ WF_vars(LoopStep)

\* The engine together with its callers: after `await this.codeExecutor.execute`
\* RunCodeCommand.execute and FileWatcher.handleFileChange hand the result to
\* OutputPanel.update.  The continuation is a microtask: it runs before the
\* event loop takes its next task.
showResult(e) ==
    /\ pc[e] = "returned"
    /\ e \notin delivered
    /\ updatePanel(result[e])
    /\ delivered' = delivered \cup {e}
    /\ UNCHANGED <<engineVars, textVars, tableVars>>

ContinuationReady == \E e \in Evals : pc[e] = "returned" /\ e \notin delivered

NextRuns ==
    \/ \E e \in Evals : showResult(e)
    \/ ~ContinuationReady /\ \E e \in Evals : RunCodeCommand(e)
    \/ ~ContinuationReady /\ \E e \in Evals : handleFileChange(e)
    \/ ~ContinuationReady /\ \E e \in Evals : AwaitSettled(e)
    \/ ~ContinuationReady /\ \E k \in 1..Len(timers) : DrainElapsed(k)
    \/ ~ContinuationReady /\ \E k \in 1..Len(timers) : TimerPrint(k)
    \/ ~ContinuationReady /\ \E k \in 1..Len(timers) : SnippetResume(k)
    \/ ~ContinuationReady /\ AdvanceTime
    \/ ~ContinuationReady /\ stopExecution

SpecRuns == Init /\ [][NextRuns]_vars

\* The display layer alone, fed with results of evaluations.
InitPanel == EngineInit /\ TextIdle /\ PanelInit /\ TableIdle

NextPanel ==
    \/ \E res \in PanelResults : update(res)
    \/ clear
    \/ show
    \/ onDidDispose

SpecPanel == InitPanel /\ [][NextPanel]_vars

\* formatAsTable on bounded arrays, one loop iteration per step.
InitTable == EngineInit /\ TextIdle /\ PanelInit /\ TableInit

NextTable ==
    \/ BuildHeader
    \/ BodyRow
    \/ FinishTable

SpecTable == InitTable /\ [][NextTable]_vars

-----------------------------------------------------------------------------
(* From the text of a snippet to what it does: new Script(finalCode) and   *)
(* the run of the wrapped program, for snippets of arithmetic lines,       *)
(* array declarations and print calls.                                     *)

RECURSIVE SplitOn(_, _, _)
\* s.split(sep) for a one-character sep, from position start
SplitOn(s, sep, start) ==
    LET hits == {j \in start..Len(s) : At(s, j) = sep}
    IN IF hits = {} THEN <<SubSeq(s, start, Len(s))>>
       ELSE LET j == CHOOSE j \in hits : \A m \in hits : j <= m
            IN <<SubSeq(s, start, j - 1)>> \o SplitOn(s, sep, j + 1)

RECURSIVE Flatten(_)
Flatten(seqs) == IF Len(seqs) = 0 THEN <<>> ELSE Head(seqs) \o Flatten(Tail(seqs))

\* The statements of a program text: its lines cut at `;`, empty ones dropped.
Statements(text) ==
    LET ls == split(text)
        pieces == Flatten([k \in 1..Len(ls) |-> SplitOn(ls[k], ";", 1)])
        trimmed == [k \in 1..Len(pieces) |-> trim(pieces[k])]
    IN SelectSeq(trimmed, LAMBDA t : t # "")

DigitValue(c) == CHOOSE n \in 0..9 : ToString(n) = c

RECURSIVE NumberOf(_)
\* The value of a run of digits
NumberOf(t) ==
    IF Len(t) = 0 THEN 0
    ELSE 10 * NumberOf(SubSeq(t, 1, Len(t) - 1)) + DigitValue(At(t, Len(t)))

NoValue == [ok |-> FALSE, val |-> 0]

\* An expression and its value: digits, `digits op digits` with op one of
\* + - *, or `x.length` when x is bound to an array (len >= 0)
Evaluate(t, len) ==
    LET a == SkipDigits(t, 1)
        b == SkipSpaces(t, a)
        c == SkipSpaces(t, b + 1)
        d == SkipDigits(t, c)
        l == NumberOf(SubSeq(t, 1, a - 1))
        r == NumberOf(SubSeq(t, c, d - 1))
    IN IF t = "x.length" /\ len >= 0 THEN [ok |-> TRUE, val |-> len]
       ELSE IF a > 1 /\ a = Len(t) + 1 THEN [ok |-> TRUE, val |-> l]
       ELSE IF a > 1 /\ At(t, b) \in {"+", "-", "*"} /\ d > c /\ d = Len(t) + 1
            THEN [ok |-> TRUE,
                  val |-> CASE At(t, b) = "+" -> l + r
                            [] At(t, b) = "-" -> l - r
                            [] At(t, b) = "*" -> l * r]
       ELSE NoValue

\* const x = [e1,...,en]: the number of elements, Never when t is no such statement
ArrayDeclared(t) ==
    IF startsWith(t, "const x = [") /\ endsWith(t, "]") /\ CountIn(t, {"[", "]"}) = 2
    THEN IF Len(t) = 12 THEN 0 ELSE CountIn(t, {","}) + 1
    ELSE Never

\* console.log(<expression>): the expression, "" when t is no such statement
Printed(t) ==
    IF startsWith(t, "console.log(") /\ endsWith(t, ")") /\ CountIn(t, {"(", ")"}) = 2
    THEN SubSeq(t, 13, Len(t) - 1)
    ELSE ""

RECURSIVE RunStatements(_, _, _)
\* The statements from st on, with x bound to an array of len elements (Never:
\* unbound): whether they all parse, and the print operations in order
RunStatements(stmts, len, acc) ==
    IF Len(stmts) = 0 THEN acc
    ELSE LET t == Head(stmts)
         IN IF ArrayDeclared(t) # Never
            THEN RunStatements(Tail(stmts), ArrayDeclared(t), acc)
            ELSE IF Printed(t) \in {"''", "\"\""}
            THEN \* console.log(''): the empty string is printed
                 RunStatements(Tail(stmts), len, [acc EXCEPT !.ops = Append(@, PLog(""))])
            ELSE IF Printed(t) # ""
            THEN LET v == Evaluate(Printed(t), len)
                 IN IF v.ok
                    THEN RunStatements(Tail(stmts), len,
                             [acc EXCEPT !.ops = Append(@, PLog(ToString(v.val)))])
                    ELSE [acc EXCEPT !.compiles = FALSE]
            ELSE IF Evaluate(t, len).ok
            THEN RunStatements(Tail(stmts), len, acc)
            ELSE [acc EXCEPT !.compiles = FALSE]

\* What the program text does when compiled and run: Prog(compiles, ops)
Behaviour(text) ==
    LET r == RunStatements(Statements(text), Never, Prog(TRUE, <<>>))
    IN IF r.compiles THEN r ELSE Prog(FALSE, <<>>)

\* CodeExecutor.wrapCodeForAsync
wrapCodeForAsync(c) == wrapCodeToCapture(c)

ReplLinePool ==
    { "2 + 2", "3 * 3", "2 + 2;", "console.log(1 + 1)", "console.log('')",
      "const x = [1,2,3]", "const x = [1,2,3]; console.log(x.length)" }

ReplSnippets == { Join(ls, "\n") : ls \in UNION { [1..n -> ReplLinePool] : n \in 1..MaxLines } }

\* execute(code) on the text of a snippet: the transforms, then the run
RunSnippet(e) ==
    /\ phase = "repl"
    /\ execute(e, Behaviour(wrapCodeForAsync(convertImportsToRequire(code))),
               RunOptions, "run")
    /\ UNCHANGED nonEngineVars

ReplText ==
    /\ phase = "repl"
    /\ code \in ReplSnippets
    /\ processedCode = ""
    /\ lines = <<>>
    /\ i = 0
    /\ wrappedLines = <<>>
    /\ insideMultiLine = FALSE
    /\ bracketDepth = 0
    /\ insideChainedCall = FALSE
    /\ verdicts = <<<<>>, <<>>>>
    /\ modes = <<<<>>, <<>>>>
    /\ firstPass = ""

InitRepl == EngineInit /\ ReplText /\ PanelInit /\ TableIdle

NextRepl ==
    \/ \E e \in Evals : RunSnippet(e)
    \/ \E e \in Evals : AwaitSettled(e)
    \/ \E k \in 1..Len(timers) : DrainElapsed(k)
    \/ AdvanceTime

SpecRepl == InitRepl /\ [][NextRepl]_vars

-----------------------------------------------------------------------------
(* Properties *)

\* The line an entry of the history put into the output record.
EntryLine(en) ==
    IF en.kind = "reject" THEN "[ERROR] " \o en.val ELSE ConsoleLine(en.kind, en.val)

EntryLines(es) == [k \in 1..Len(es) |-> EntryLine(es[k])]

IsEarly(en) == ~en.late

Returned(e) == pc[e] = "returned"

\* The body of prog run in a sandbox no evaluation has touched.
FreshRun(e, prog) ==
    RunBody(e, prog.ops,
            [ip |-> 1, out |-> <<>>, log |-> <<>>, tm |-> <<>>, glob |-> "undefined",
             status |-> "running", err |-> ""])

ThrowsSynchronously(e) ==
    program[e] # Null /\ program[e].compiles /\ FreshRun(e, program[e]).status = "threw"

\* C1: the program produced by convertImportsToRequire followed by
\* wrapCodeToCapture has as many lines as the snippet, whatever the snippet.
C1_LineCountPreserved ==
    phase \in {"scan2", "done"} => Len(split(firstPass)) = Len(split(code))

\* C2: a snippet that throws during its synchronous execution yields a result
\* with success = false and a non-empty error description.
C2_SyncThrowFails ==
    \A e \in Evals :
        Returned(e) /\ ThrowsSynchronously(e) =>
            /\ ~result[e].success
            /\ "error" \in DOMAIN result[e]
            /\ result[e].error # ""

\* C3: once stopExecution has signalled an execute call in flight, that call
\* waits no longer: no time passes before it returns, its next move is to
\* return, and the result it returns is not marked as completed.
C3_CancelReturnsEarly ==
    [][\A e \in Evals :
          (e \in cancelledInFlight /\ InFlight(e)) =>
              /\ now' = now
              /\ pc'[e] # pc[e] => pc'[e] = "returned" /\ ~result'[e].success]_vars

\* C4: at most one evaluation is in flight at any time.
C4_AtMostOneInFlight == Cardinality({e \in Evals : InFlight(e)}) <= 1

\* C5: the output of a result is what was captured before the call returned;
\* a print made after the drain window is not in it and does not change it,
\* and the snippet whose only print is in a timer later than the drain window
\* returns success with the empty marker.
C5_OutputFixedAtDrain ==
    \A e \in Evals :
        Returned(e) =>
            LET early == EntryLines(SelectSeq(log[e], IsEarly))
            IN /\ result[e].output =
                      (IF Len(early) > 0 THEN Join(early, "\n")
                       ELSE IF result[e].success THEN EmptyMarker ELSE "")
               /\ program[e] = LateProgram =>
                      result[e].success /\ result[e].output = "(sin salida)"

C5_Witness ==
    \E e \in Evals :
        /\ Returned(e)
        /\ program[e] = LateProgram
        /\ result[e].output = EmptyMarker
        /\ \E k \in 1..Len(log[e]) : log[e][k].late

Rejected(e) == handle[e] # Null /\ handle[e].state = "rejected"

RejectEntries(e) == {k \in 1..Len(log[e]) : log[e][k].kind = "reject"}

\* C6: when the handle settles with a rejection, execute appends one error
\* line after the lines captured before it, keeps those lines, still waits
\* the drain window, and returns success = true with no error field.
C6_RejectionRecovered ==
    \A e \in Evals :
        /\ (Rejected(e) /\ pc[e] \in {"drain", "returned"}) =>
               /\ Cardinality(RejectEntries(e)) = 1
               /\ \A k \in RejectEntries(e) :
                      /\ outputs[e][k] = "[ERROR] " \o handle[e].err
                      /\ \A j \in 1..(k - 1) : outputs[e][j] = EntryLine(log[e][j])
        /\ (Rejected(e) /\ Returned(e)) =>
               /\ result[e].success
               /\ "error" \notin DOMAIN result[e]
               /\ result[e].executionTime >= EffectiveAsyncTimeout(options[e])
               /\ program[e] = ThrowingProgram =>
                      result[e].output = "a\n[WARN] w\n[ERROR] boom"

C6_Witness ==
    \E e \in Evals :
        /\ Returned(e)
        /\ Rejected(e)
        /\ program[e] = ThrowingProgram
        /\ result[e].success

\* The synchronous run of the snippet of evaluation e fails: the program does
\* not compile, or it is still running when the CPU-time budget is spent.
FailsSynchronously(e) ==
    /\ program[e] # Null
    /\ \/ ~program[e].compiles
       \/ FreshRun(e, program[e]).status = "spin"

\* C7: execute never throws to its caller: when the program fails to compile
\* or the synchronous run exceeds the budget, the call returns a result with
\* success = false, an error description, and as output the lines captured
\* before the failure joined in order (empty when there are none).
C7_FailureIsReturned ==
    \A e \in Evals :
        /\ pc[e] \in {"idle", "awaitHandle", "drain", "returned"}
        /\ Returned(e) => result[e] # Null /\ "success" \in DOMAIN result[e]
        /\ FailsSynchronously(e) =>
               /\ Returned(e)
               /\ ~result[e].success
               /\ "error" \in DOMAIN result[e]
               /\ result[e].error # ""
               /\ result[e].output =
                      (IF program[e].compiles
                       THEN Join(FreshRun(e, program[e]).out, "\n")
                       ELSE "")
               /\ program[e] = SpinningProgram => result[e].output = "a"

C7_Witness ==
    \E e, d \in Evals :
        /\ Returned(e) /\ program[e] = SpinningProgram /\ result[e].output = "a"
        /\ Returned(d) /\ program[d] = BrokenProgram /\ result[d].output = ""

\* C8: the captured lines are in the order of their print calls, across
\* synchronous code, awaited continuations and timer callbacks; none is
\* dropped, duplicated or reordered.
C8_OutputInPrintOrder ==
    \A e \in Evals :
        /\ outputs[e] = EntryLines(log[e])
        /\ (Returned(e) /\ program[e] = InterleavedProgram) =>
               result[e].output = "s1\nt1\n[ERROR] s2\n[ERROR] later"

C8_Witness ==
    \E e \in Evals :
        /\ Returned(e)
        /\ program[e] = InterleavedProgram
        /\ Len(log[e]) = 4

\* C9: the result of an evaluation does not depend on what an earlier snippet
\* did: a snippet whose body runs to its end gives the output it gives in a
\* sandbox nothing has touched.
C9_NoSharedState ==
    \A e \in Evals :
        (Returned(e) /\ program[e].compiles /\ FreshRun(e, program[e]).status = "done") =>
            result[e].output = SuccessOutput(FreshRun(e, program[e]).out)

\* C10: scanning the scanner's own output returns it unchanged: a line the
\* first pass wrapped is passed through as a print call by the second, a line
\* the first pass left alone is not wrapped by the second, and the modes after
\* each line are the same on both passes.
C10_SecondPassUnchanged ==
    phase = "done" =>
        /\ Join(wrappedLines, "\n") = firstPass
        /\ Len(verdicts[2]) = Len(verdicts[1])
        /\ modes[2] = modes[1]
        /\ \A k \in 1..Len(verdicts[1]) :
              /\ verdicts[1][k] = "wrap" => verdicts[2][k] = "console"
              /\ verdicts[1][k] # "wrap" => verdicts[2][k] # "wrap"

C10_Witness ==
    /\ phase = "done"
    /\ \E k \in 1..Len(verdicts[1]) : verdicts[1][k] = "wrap"
    /\ \E k \in 1..Len(modes[1]) : modes[1][k].insideChainedCall
    /\ Len(verdicts[1]) >= 2

\* The lines the first pass scans.
ScannedLines == split(processedCode)

\* A declaration: the line starts with const, let or var and a space.
IsDeclarationLine(t) ==
    \E kw \in {"const", "let", "var"} : startsWith(t, kw \o " ")

RECURSIVE OpenBefore(_, _)
\* How many parentheses, brackets and braces the lines before line k of ls
\* leave open.
OpenBefore(ls, k) ==
    IF k <= 1 THEN 0
    ELSE OpenBefore(ls, k - 1)
         + CountIn(ls[k - 1], {"(", "[", "{"}) - CountIn(ls[k - 1], {")", "]", "}"})

\* C11: a line the Auto-Logger rewrites is by itself a complete bare
\* expression statement: not a declaration, not a line inside a call or literal
\* left open by earlier lines, not a continuation line starting with a dot.
C11_OnlyBareExpressionsWrapped ==
    phase \in {"scan1", "scan2", "done"} =>
        \A k \in 1..Len(verdicts[1]) :
            verdicts[1][k] = "wrap" =>
                /\ ~IsDeclarationLine(trim(ScannedLines[k]))
                /\ ~startsWith(trim(ScannedLines[k]), ".")
                /\ OpenBefore(ScannedLines, k) = 0

\* An update of previous result old with result new has to render in full.
FullRenderRequired(old, new) ==
    \/ old = Null
    \/ old.success # new.success
    \/ "error" \in DOMAIN new
    \/ old.output = ""
    \/ new.output = ""

EntriesAt(changes, idx) == {j \in 1..Len(changes) : changes[j].index = idx}

\* C13: the patch has, in increasing index order and at most one per index,
\* an add entry with the new content for each index only the new output has, a
\* remove entry for each index only the old output has, a modify entry with
\* the new content for each index where the two differ, nothing where they are
\* equal; ["a","b"] against ["a","c"] gives one modify entry at index 1 with
\* content "c"; the patch carries the current success flag and execution time.
C13_DiffByIndex ==
    lastUpdate.kind = "patch" =>
        LET data == lastUpdate.sent.data
            changes == data.outputChanges
            old == split(lastUpdate.old.output)
            new == split(lastResult.output)
            maxLen == IF Len(old) > Len(new) THEN Len(old) ELSE Len(new)
        IN /\ \A j \in 1..Len(changes) : changes[j].index \in 0..(maxLen - 1)
           /\ \A j, k \in 1..Len(changes) : j < k => changes[j].index < changes[k].index
           /\ \A idx \in 0..(maxLen - 1) :
                 IF idx >= Len(old)
                 THEN \E j \in EntriesAt(changes, idx) :
                          changes[j] = [type |-> "add", index |-> idx,
                                        content |-> new[idx + 1]]
                 ELSE IF idx >= Len(new)
                 THEN \E j \in EntriesAt(changes, idx) :
                          changes[j] = [type |-> "remove", index |-> idx]
                 ELSE IF old[idx + 1] # new[idx + 1]
                 THEN \E j \in EntriesAt(changes, idx) :
                          changes[j] = [type |-> "modify", index |-> idx,
                                        content |-> new[idx + 1]]
                 ELSE EntriesAt(changes, idx) = {}
           /\ (lastUpdate.old.output = "a\nb" /\ lastResult.output = "a\nc") =>
                  changes = <<[type |-> "modify", index |-> 1, content |-> "c"]>>
           /\ data.success = lastResult.success
           /\ data.executionTime = lastResult.executionTime

C13_Witness ==
    /\ lastUpdate.kind = "patch"
    /\ lastUpdate.old.output = "a\nb"
    /\ lastResult.output = "a\nc"
    /\ Len(lastUpdate.sent.data.outputChanges) = 1

\* The positions at which two sequences of rendered units differ.
UnitDiffs(us, vs) == {p \in 1..Len(us) : us[p] # vs[p]}

\* C14: a rendered table is one unit of the diff: when previous and current
\* output have the same units but for one table, the patch is a single modify
\* entry at that table's position among the units, carrying the whole new table.
C14_TableIsOneUnit ==
    lastUpdate.kind = "patch" =>
        LET us == formatOutputAsLines(lastUpdate.old.output)
            vs == formatOutputAsLines(lastResult.output)
        IN (/\ Len(us) = Len(vs)
            /\ Cardinality(UnitDiffs(us, vs)) = 1
            /\ \A p \in UnitDiffs(us, vs) : us[p].table /\ vs[p].table) =>
               \A p \in UnitDiffs(us, vs) :
                   lastUpdate.sent.data.outputChanges =
                       <<[type |-> "modify", index |-> p - 1, content |-> vs[p].text]>>

\* What a source line of arithmetic and print calls is to put out: a line
\* with a print call what its statements print, an arithmetic line its value.
ExpectedOfLine(line) ==
    IF HasPrintCall(line)
    THEN LET ops == Behaviour(line).ops IN [k \in 1..Len(ops) |-> ops[k].val]
    ELSE <<ToString(Evaluate(trim(StripSemicolon(trim(line))), Never).val)>>

\* Every line of the snippet is a bare arithmetic expression or has a print call.
ArithmeticAndPrintLines(c) ==
    \A k \in 1..Len(split(c)) :
        \/ HasPrintCall(split(c)[k])
        \/ Evaluate(trim(StripSemicolon(trim(split(c)[k]))), Never).ok

ExpectedOutput(c) ==
    LET ls == split(c) IN Join(Flatten([k \in 1..Len(ls) |-> ExpectedOfLine(ls[k])]), "\n")

\* C15: a snippet of bare arithmetic lines and of lines with an explicit print
\* call evaluates to success with one output line per such line, in source
\* order; "2 + 2" gives "4", and the declaration followed by
\* console.log(x.length) gives "3" only.
C15_OneOutputPerLine ==
    \A e \in Evals :
        (phase = "repl" /\ Returned(e) /\ ArithmeticAndPrintLines(code)) =>
            /\ result[e].success
            /\ result[e].output = ExpectedOutput(code)
            /\ code = "2 + 2" => result[e].output = "4"
            /\ code = "const x = [1,2,3]; console.log(x.length)" => result[e].output = "3"

\* The first of the three import shapes that matches at position k
AnyShapeAt(s, k) ==
    IF DefaultImport(s, k).ok THEN DefaultImport(s, k)
    ELSE IF NamedImport(s, k).ok THEN NamedImport(s, k)
    ELSE NamespaceImport(s, k)

ShapeStarts(s, k) == {j \in k..Len(s) : AnyShapeAt(s, j).ok}

RECURSIVE OutsideSpansKept(_, _)
\* The text from position k on with each import span replaced by its
\* require-style binding and every other character copied
OutsideSpansKept(s, k) ==
    IF ShapeStarts(s, k) = {} THEN SubSeq(s, k, Len(s))
    ELSE LET j == CHOOSE j \in ShapeStarts(s, k) : \A m \in ShapeStarts(s, k) : j <= m
             m == AnyShapeAt(s, j)
         IN SubSeq(s, k, j - 1) \o m.text \o OutsideSpansKept(s, m.end)

Normalized == phase \in {"scan1", "scan2", "done"}

\* C16: the Import Normalizer leaves every character outside a matched import
\* span unchanged, and text in which none of the three import shapes occurs
\* comes out exactly as it went in.
C16_OutsideSpansUnchanged ==
    Normalized =>
        /\ processedCode = OutsideSpansKept(code, 1)
        /\ ShapeStarts(code, 1) = {} => processedCode = code

\* An import span with text before and after it has been rewritten.
C16_Witness ==
    /\ Normalized
    /\ \E j \in ShapeStarts(code, 1) :
          /\ j > 1
          /\ AnyShapeAt(code, j).end <= Len(code)
          /\ SubSeq(processedCode, 1, j - 1) = SubSeq(code, 1, j - 1)
    /\ processedCode # code

\* The number of places of s where sub occurs
Occurrences(s, sub) == Cardinality({j \in 1..Len(s) : StartsWithAt(s, sub, j)})

\* The keys of the elements before position k of a
KeysBefore(a, k) ==
    UNION { {a[j].props[m].key : m \in 1..Len(a[j].props)} : j \in 1..k - 1 }

\* hs lists the keys of all elements of a, each once, in order of first appearance
IsUnionOfKeys(hs, a) ==
    /\ {hs[k] : k \in 1..Len(hs)} = KeysBefore(a, Len(a) + 1)
    /\ \A k, m \in 1..Len(hs) : k # m => hs[k] # hs[m]
    /\ \A k, m \in 1..Len(hs) :
          k < m => \E j \in 1..Len(a) :
                      /\ HasProp(a[j], hs[k])
                      /\ hs[m] \notin KeysBefore(a, j)
                      /\ \A n \in 1..Len(a[j].props) :
                            a[j].props[n].key = hs[m] =>
                                \E q \in 1..n - 1 : a[j].props[q].key = hs[k]

\* The row of element obj with an empty cell for each key it lacks
RowWithEmptyCells(obj, hs) ==
    "    <tr>\n"
    \o Join([k \in 1..Len(hs) |->
                "      <td>"
                \o (IF HasProp(obj, hs[k]) THEN escapeHtml(displayValue(obj, hs[k])) ELSE "")
                \o "</td>\n"], "")
    \o "    </tr>\n"

\* C17: a non-empty array whose first element is a plain record becomes a
\* table: the header row lists the union of the keys of all elements in order
\* of first appearance, then one row per element with one cell per header key,
\* the cell empty when the element lacks the key.
C17_TableOfRecords ==
    /\ tablePhase # "threw"
    /\ tablePhase \in {"rows", "done"} => IsUnionOfKeys(headers, arr)
    /\ tablePhase = "done" =>
          /\ Occurrences(table, "<th>") = Len(headers)
          /\ Occurrences(table, "<tr>") = Len(arr) + 1
          /\ Occurrences(table, "<td>") = Len(arr) * Len(headers)
          /\ table = TableHead(headers)
                     \o Join([k \in 1..Len(arr) |-> RowWithEmptyCells(arr[k], headers)], "")
                     \o TableTail

\* C18: when execute is called without the corresponding options, the
\* CPU-time budget of the synchronous run is 5000 ms and the asynchronous
\* drain window is 500 ms.
C18_DefaultBudgets ==
    \A e \in Evals :
        (pc[e] # "idle" /\ options[e] = NoOptions) =>
            /\ (Returned(e) /\ ~result[e].success
                    /\ result[e].error = errorMessage(TimeoutMessage)) =>
                   result[e].executionTime = 5000
            /\ \A k \in 1..Len(timers) :
                  (timers[k].kind = "drain" /\ timers[k].eval = e) =>
                      timers[k].delay = 500

\* The trimmed line starts with a control-flow keyword: the keyword is the
\* whole line or is followed by a space, `(`, `{`, `;` or `:`.
StartsWithKeyword(t) ==
    \E keyword \in controlKeywords :
        /\ startsWith(t, keyword)
        /\ \/ Len(t) = Len(keyword)
           \/ At(t, Len(keyword) + 1) \in {" ", "(", "{", ";", ":"}

\* C19: every line whose trimmed text starts with a control-flow keyword is
\* emitted unchanged by the Auto-Logger, also when the keyword is directly
\* followed by `;`, `:` or the end of the line.
C19_KeywordLinesUnchanged ==
    phase = "scan1" =>
        \A k \in 1..Len(wrappedLines) :
            StartsWithKeyword(trim(lines[k])) => wrappedLines[k] = lines[k]

RECURSIVE StructureAfter(_, _)
\* Whether a multi-line structure is open after line k of ls, and how deep:
\* a declaration that opens more than it closes starts one, every line inside
\* it adds its net count, and it ends when the depth is back to zero.
StructureAfter(ls, k) ==
    IF k = 0 THEN [open |-> FALSE, depth |-> 0]
    ELSE LET before == StructureAfter(ls, k - 1)
             t == trim(ls[k])
             d == before.depth + NetBrackets(t)
         IN IF before.open
            THEN IF d <= 0 THEN [open |-> FALSE, depth |-> 0]
                 ELSE [open |-> TRUE, depth |-> d]
            ELSE IF varMatch(t) /\ NetBrackets(t) > 0
                 THEN [open |-> TRUE, depth |-> NetBrackets(t)]
                 ELSE [open |-> FALSE, depth |-> 0]

\* C20: after a declaration line whose right-hand side opens more brackets or
\* braces than it closes the Auto-Logger is in multi-line-structure mode:
\* every following line is emitted unchanged and adds its net count of opening
\* minus closing brackets and braces to the depth, whatever the line is, and
\* the mode ends exactly at the first line after which the depth is zero.
C20_DepthTracked ==
    phase = "scan1" =>
        \A k \in 1..Len(wrappedLines) :
            /\ StructureAfter(lines, k - 1).open => wrappedLines[k] = lines[k]
            /\ modes[1][k].insideMultiLine = StructureAfter(lines, k).open
            /\ StructureAfter(lines, k).open =>
                   modes[1][k].bracketDepth = StructureAfter(lines, k).depth

\* Line k of the scanned lines starts with a dot.
DotLine(k) == startsWith(trim(lines[k]), ".")

\* C21: chain mode is entered at a call-expression line whose next line starts
\* with a dot and lasts exactly as long as the following lines start with a
\* dot: each of them is emitted unchanged, and the first line after them is
\* processed outside chain mode, also when the last chain line ends with `);`.
C21_ChainLastsWhileDotLines ==
    phase = "scan1" =>
        \A s \in 1..Len(wrappedLines) :
            verdicts[1][s] = "chainStart" =>
                \A k \in s + 1..Len(wrappedLines) :
                    (\A j \in s + 1..k - 1 : DotLine(j)) =>
                        IF DotLine(k)
                        THEN wrappedLines[k] = lines[k]
                        ELSE /\ ~modes[1][k - 1].insideChainedCall
                             /\ verdicts[1][k] # "chain"

\* A step of OutputPanel.update that posts an updateDiff message.
PatchSent == (\E res \in PanelResults : update(res)) /\ lastUpdate'.kind = "patch"

\* C22: whenever update sends an incremental patch, the content the webview
\* shows is the rendering of the previous result the patch was computed
\* against; the first update after clear(), or after the panel was closed and
\* created again, is a full render.
C22_PatchAgainstShownContent ==
    [][PatchSent => panel /\ shown = lastResult]_vars

\* The evaluation that was requested last.
LastRequested == CHOOSE e \in Evals : pc[e] # "idle" /\ \A d \in Evals : pc[d] # "idle" => d <= e

\* C23: when two runs were requested one after the other and both have
\* returned, the panel shows, and keeps as previous result, the result of
\* the run requested last, in whatever order the two execute calls completed.
C23_LastRequestedShown ==
    (Cardinality(delivered) >= 2 /\ \A e \in Evals : pc[e] # "idle" => e \in delivered) =>
        /\ lastResult = result[LastRequested]
        /\ shown = result[LastRequested]

\* Entry en of the history of an output record comes from operation o of a
\* snippet: a print call of the same kind and value, a timer callback that
\* prints the value, or a print of the host's global.
PrintedBy(o, en) ==
    \/ o.op \in {"log", "error", "warn"} /\ en.kind = o.op /\ en.val = o.val
    \/ o.op = "timer" /\ en.kind = "log" /\ en.val = o.val
    \/ o.op = "logGlobal" /\ en.kind = "log"

\* The entries of the output record of e that its own snippet printed.
OwnEntries(e) ==
    {k \in 1..Len(log[e]) :
        \E j \in 1..Len(program[e].ops) : PrintedBy(program[e].ops[j], log[e][k])}

PrintOps(prog) ==
    {j \in 1..Len(prog.ops) : prog.ops[j].op \in {"log", "error", "warn", "timer", "logGlobal"}}

\* C24: a print call made by the sandbox of one evaluation is appended only to
\* that evaluation's output record: every line of a record, and so of the
\* result, was printed by the evaluation's own snippet (or is the error line
\* execute adds for a rejection), each print at most once.
C24_OutputRecordsIsolated ==
    \A e \in Evals :
        pc[e] # "idle" =>
            /\ \A k \in 1..Len(log[e]) : log[e][k].kind = "reject" \/ k \in OwnEntries(e)
            /\ Cardinality(OwnEntries(e)) <= Cardinality(PrintOps(program[e]))
            /\ outputs[e] = EntryLines(log[e])
            /\ Returned(e) =>
                  \A j \in 1..Len(split(result[e].output)) :
                      \/ result[e].output \in {EmptyMarker, ""}
                      \/ \E k \in 1..Len(outputs[e]) :
                            outputs[e][k] = split(result[e].output)[j]

\* The timer of an earlier evaluation has fired while a later one is in
\* flight, and each record holds its own snippet's line only.
C24_Witness ==
    \E e, d \in Evals :
        /\ e < d
        /\ program[e] = LateProgram
        /\ program[d] = NeverProgram
        /\ pc[d] = "awaitHandle"
        /\ \E k \in 1..Len(log[e]) : log[e][k].val = "late"
        /\ outputs[d] = <<"a">>

\* C25: every execute call eventually returns: once the synchronous run has
\* returned, execute returns after a bounded wait, also when the handle of the
\* wrapped async function never settles and no cancel is issued (an event loop
\* stuck in a snippet's endless loop set aside).
C25_ExecuteReturns ==
    \A e \in Evals :
        (pc[e] = "awaitHandle" /\ ~hung) ~> (pc[e] = "returned" \/ hung \/ e \in aborted)

\* C26: for every line the Auto-Logger wraps, the text between `console.log(`
\* and `)` is the expression alone, without a trailing statement terminator.
C26_WrappedExpressionAlone ==
    phase = "scan1" =>
        \A k \in 1..Len(wrappedLines) :
            verdicts[1][k] = "wrap" =>
                /\ wrappedLines[k] = Indent(lines[k]) \o "console.log("
                                     \o StripSemicolon(trim(lines[k])) \o ")"
                /\ ~endsWith(wrappedLines[k], ";)")

\* The indices a patch removes.
Removed(changes) == {changes[j].index : j \in {m \in 1..Len(changes) : changes[m].type = "remove"}}

\* The old lines with a patch applied: the lines at removed indices dropped,
\* the content of an add or modify entry at its index, the old line elsewhere.
ApplyPatch(oldLines, changes) ==
    LET written == {j \in 1..Len(changes) : changes[j].type \in {"add", "modify"}}
        top == Cardinality({idx \in 0..(Len(oldLines) - 1) : idx \notin Removed(changes)})
               + Cardinality({j \in written : changes[j].index >= Len(oldLines)})
    IN [p \in 1..top |->
           IF \E j \in written : changes[j].index = p - 1
           THEN changes[CHOOSE j \in written : changes[j].index = p - 1].content
           ELSE oldLines[p]]

\* C27: applying the patch of getDiff(old, new) to the old output lines gives
\* the new output lines exactly; the remove entries are exactly the indices
\* from the new length up to the old length; the patch is empty if and only if
\* the two outputs are equal.
C27_PatchReproducesNewLines ==
    lastUpdate.kind = "patch" =>
        LET changes == lastUpdate.sent.data.outputChanges
            old == split(lastUpdate.old.output)
            new == split(lastResult.output)
        IN /\ ApplyPatch(old, changes) = new
           /\ Removed(changes) = {idx \in 0..(Len(old) - 1) : idx >= Len(new)}
           /\ (changes = <<>>) <=> (lastUpdate.old.output = lastResult.output)

\* A patch with a modify and a remove entry was sent: the new output is shorter.
C27_Witness ==
    /\ lastUpdate.kind = "patch"
    /\ \E j \in 1..Len(lastUpdate.sent.data.outputChanges) :
          lastUpdate.sent.data.outputChanges[j].type = "remove"
    /\ \E j \in 1..Len(lastUpdate.sent.data.outputChanges) :
          lastUpdate.sent.data.outputChanges[j].type = "modify"
    /\ Len(split(lastResult.output)) < Len(split(lastUpdate.old.output))

\* C28: the abortController field is non-null exactly while an evaluation is
\* in flight, and then belongs to it: it is cleared when the execute call
\* returns, and stopExecution never signals the controller of an evaluation
\* that is not in flight.
C28_ControllerWhileInFlight ==
    /\ abortController # 0 <=> \E e \in Evals : InFlight(e)
    /\ abortController # 0 => InFlight(abortController)
    /\ aborted \subseteq cancelledInFlight

\* C29: every result execute returns is well-formed: success = true if and
\* only if the error field is absent; a success result's output is never the
\* empty string (the captured lines joined by newlines, or the marker
\* "(sin salida)" when nothing was captured); a failure result's output is the
\* captured lines joined by newlines, or the empty string when nothing was
\* captured.
C29_ResultWellFormed ==
    \A e \in Evals :
        (phase = "repl" /\ Returned(e)) =>
            /\ result[e].success <=> "error" \notin DOMAIN result[e]
            /\ result[e].success =>
                  /\ result[e].output # ""
                  /\ result[e].output =
                         (IF outputs[e] = <<>> THEN "(sin salida)" ELSE Join(outputs[e], "\n"))
            /\ ~result[e].success =>
                  result[e].output = (IF outputs[e] = <<>> THEN "" ELSE Join(outputs[e], "\n"))

\* C29 as the code has it: success = true if and only if the error field is
\* absent; a success result's output is the captured lines joined by newlines,
\* or the marker "(sin salida)" when nothing was captured, and it is the empty
\* string exactly when the one captured line is empty; a failure result's
\* output is the captured lines joined by newlines, or the empty string.
C29_ResultWellFormedAmended ==
    \A e \in Evals :
        (phase = "repl" /\ Returned(e)) =>
            /\ result[e].success <=> "error" \notin DOMAIN result[e]
            /\ result[e].success =>
                  /\ result[e].output =
                         (IF outputs[e] = <<>> THEN "(sin salida)" ELSE Join(outputs[e], "\n"))
                  /\ result[e].output = "" <=> outputs[e] = <<"">>
            /\ ~result[e].success =>
                  result[e].output = (IF outputs[e] = <<>> THEN "" ELSE Join(outputs[e], "\n"))

\* An evaluation whose one captured line is empty has returned a success
\* result with the empty string as output.
C29_Witness ==
    \E e \in Evals :
        /\ phase = "repl"
        /\ Returned(e)
        /\ result[e].success
        /\ outputs[e] = <<"">>
        /\ result[e].output = ""


\* C30: at every line boundary of the Auto-Logger's pass the multi-line flag
\* is set if and only if the bracket depth is greater than zero; the depth is
\* never negative, also after a declaration line that closes more brackets
\* than it opens.
C30_FlagIffDepthPositive ==
    phase \in {"scan1", "scan2"} =>
        /\ bracketDepth >= 0
        /\ insideMultiLine <=> bracketDepth > 0

====
